---- MODULE Spec2Model ----
(***************************************************************************)
(* Commerce transaction core of the store backend: cart pricing            *)
(* (models/Cart.js), stock ledger (models/Product.js), checkout and        *)
(* cancellation (controllers/order.controller.js), cart and wishlist       *)
(* request handlers (controllers/wishlist.controller.js).                  *)
(*                                                                         *)
(* Money is counted in cents.  The catalog prices, price adjustments and   *)
(* coupon magnitudes used below are multiples of 500 cents and 10 percent, *)
(* so every product, percentage and 8% tax of the code is an exact integer *)
(* number of cents and \div loses nothing.                                 *)
(*                                                                         *)
(* Persistence calls are read at face value: a save persists the document  *)
(* unless a validator declared in the schema rejects it, a populate makes  *)
(* the referenced product readable, and an optional slot (coupon) is       *)
(* either present or absent.                                               *)
(***************************************************************************)
EXTENDS Integers, Sequences, FiniteSets, TLC

VARIABLES products, carts, wishlists, orders, req, stock0

vars == <<products, carts, wishlists, orders, req, stock0>>

(***************************************************************************)
(* Bounds of the model.                                                    *)
(***************************************************************************)
MaxLines == 2
MaxQty == 3
MaxStock == 1
MaxOrders == 1
MaxRaceOrders == 2

Products == {"p1", "p2"}
Users == {"u1", "u2"}
Procs == {"r1", "r2"}

ShippingMethods == {"standard", "express", "overnight"}

(***************************************************************************)
(* Variant selections as they arrive in a request body.  isNull is the     *)
(* absent variant (addItem's default parameter turns undefined into null); *)
(* hasAdj says whether the key priceAdjustment is present in the object.   *)
(***************************************************************************)
NullVariant ==
    [isNull |-> TRUE, name |-> "", value |-> "", hasAdj |-> FALSE, priceAdjustment |-> 0]
BareVariant ==
    [isNull |-> FALSE, name |-> "size", value |-> "L", hasAdj |-> FALSE, priceAdjustment |-> 0]
FullVariant ==
    [isNull |-> FALSE, name |-> "size", value |-> "XL", hasAdj |-> TRUE, priceAdjustment |-> 500]
RequestVariants == {NullVariant, BareVariant, FullVariant}

\* cartItemSchema.variant: a nested path whose priceAdjustment defaults to 0.
\* A variant object is stored with the default filled in; null stays null.
CastVariant(v) ==
    IF v.isNull THEN v ELSE [v EXCEPT !.hasAdj = TRUE]

\* JSON.stringify of a variant: "null", or the object's present keys in order.
Stringify(v) ==
    IF v.isNull THEN <<"null">>
    ELSE <<"name", v.name, "value", v.value>>
         \o (IF v.hasAdj THEN <<"priceAdjustment", ToString(v.priceAdjustment)>> ELSE <<>>)

\* item.variant?.priceAdjustment || 0
PriceAdjustmentOf(v) ==
    IF v.isNull \/ ~v.hasAdj THEN 0 ELSE v.priceAdjustment

(***************************************************************************)
(* Coupons.                                                                *)
(***************************************************************************)
NoCoupon == [present |-> FALSE, discount |-> 0, type |-> "none"]
PercentCoupon == [present |-> TRUE, discount |-> 10, type |-> "percentage"]
FixedCoupon == [present |-> TRUE, discount |-> 500, type |-> "fixed"]
\* couponValidation: discount is a float >= 0 and type is percentage or fixed.
RouteCoupons == {PercentCoupon, FixedCoupon}

(***************************************************************************)
(* Cart documents.                                                         *)
(***************************************************************************)
\* No cart document stored for the user yet.
NoCart ==
    [exists |-> FALSE, items |-> <<>>, coupon |-> NoCoupon, shippingMethod |-> "standard",
     subtotal |-> 0, tax |-> 0, shipping |-> 0, discount |-> 0, total |-> 0]

\* Cart.create({ user }): the schema defaults.
NewCart == [NoCart EXCEPT !.exists = TRUE]

\* let cart = await Cart.findOne(...); if (!cart) cart = await Cart.create(...)
FindOrCreate(c) == IF c.exists THEN c ELSE NewCart

RECURSIVE SumLines(_, _)
SumLines(items, prods) ==
    IF items = <<>> THEN 0
    ELSE (prods[Head(items).product].price + PriceAdjustmentOf(Head(items).variant))
            * Head(items).quantity
         + SumLines(Tail(items), prods)

\* Units of product p on the lines of an item list.
RECURSIVE QtyOf(_, _)
QtyOf(items, p) ==
    IF items = <<>> THEN 0
    ELSE (IF Head(items).product = p THEN Head(items).quantity ELSE 0)
         + QtyOf(Tail(items), p)

ShippingRate(method) ==
    CASE method = "standard" -> 599
      [] method = "express" -> 1299
      [] method = "overnight" -> 2499
      [] OTHER -> 0

CouponDiscount(coupon, subtotal) ==
    IF coupon.present
    THEN IF coupon.type = "percentage"
         THEN (subtotal * coupon.discount) \div 100
         ELSE coupon.discount
    ELSE 0

TaxRatePercent == 8

\* CalculateTotals that taxes the subtotal before the discount.
CalculateTotals_TaxOnSubtotal(c, prods) ==
    LET subtotal == SumLines(c.items, prods)
        discount == CouponDiscount(c.coupon, subtotal)
        shipping == ShippingRate(c.shippingMethod)
        tax == (subtotal * TaxRatePercent) \div 100
    IN [c EXCEPT !.subtotal = subtotal, !.discount = discount, !.shipping = shipping,
                 !.tax = tax, !.total = subtotal - discount + tax + shipping]

\* CalculateTotals with the discount left out of the total.
CalculateTotals_DropsDiscount(c, prods) ==
    LET subtotal == SumLines(c.items, prods)
        discount == CouponDiscount(c.coupon, subtotal)
        shipping == ShippingRate(c.shippingMethod)
        tax == ((subtotal - discount) * TaxRatePercent) \div 100
    IN [c EXCEPT !.subtotal = subtotal, !.discount = discount, !.shipping = shipping,
                 !.tax = tax, !.total = subtotal + tax + shipping]

CalculateTotals(c, prods) ==
    LET subtotal == SumLines(c.items, prods)
        discount == CouponDiscount(c.coupon, subtotal)
        shipping == ShippingRate(c.shippingMethod)
        tax == ((subtotal - discount) * TaxRatePercent) \div 100
    IN [c EXCEPT !.subtotal = subtotal, !.discount = discount, !.shipping = shipping,
                 !.tax = tax, !.total = subtotal - discount + tax + shipping]

\* Schema validation without the minimum on quantity.
ValidCart_NoMin(c) == \A i \in 1..Len(c.items) : c.items[i].quantity \in Int

\* Schema validation run by save(): cartItemSchema.quantity has min 1.
ValidCart(c) == \A i \in 1..Len(c.items) : c.items[i].quantity >= 1

\* pre('save'): totals are recomputed only when items, coupon or
\* shippingMethod were modified since the document was loaded.
PreSave(old, new, prods) ==
    IF new.items # old.items \/ new.coupon # old.coupon
       \/ new.shippingMethod # old.shippingMethod
    THEN CalculateTotals(new, prods)
    ELSE new

\* document.save(): validation first, then the pre-save hook; a rejected
\* save persists nothing.
Save(old, new, prods) ==
    IF ValidCart(new) THEN PreSave(old, new, prods) ELSE old

\* items.find(...) of addItem / updateQuantity: index of the first line whose
\* product matches and whose stringified variant equals the stringified argument.
FindItem(items, p, v) ==
    LET S == {i \in 1..Len(items) :
                 items[i].product = p /\ Stringify(items[i].variant) = Stringify(v)}
    IN IF S = {} THEN 0 ELSE CHOOSE i \in S : \A j \in S : i <= j

\* The in-memory document after addItem's find-and-bump or push.
AddItemDoc(c, p, q, v) ==
    LET i == FindItem(c.items, p, v)
    IN IF i # 0
       THEN [c EXCEPT !.items[i].quantity = @ + q]
       ELSE [c EXCEPT !.items = Append(@, [product |-> p, quantity |-> q,
                                            variant |-> CastVariant(v)])]

AddItem(c, p, q, v, prods) == Save(c, AddItemDoc(c, p, q, v), prods)

RemoveItemDoc(c, p, v) ==
    [c EXCEPT !.items = SelectSeq(@, LAMBDA item :
        ~(item.product = p /\ Stringify(item.variant) = Stringify(v)))]

RemoveItem(c, p, v, prods) == Save(c, RemoveItemDoc(c, p, v), prods)

UpdateQuantity(c, p, q, v, prods) ==
    LET i == FindItem(c.items, p, v)
    IN IF i = 0 THEN c
       ELSE IF q <= 0 THEN RemoveItem(c, p, v, prods)
       ELSE Save(c, [c EXCEPT !.items[i].quantity = q], prods)

\* clear() that resets the totals and the coupon but keeps the lines.
Clear_KeepsItems(c, prods) ==
    Save(c, [c EXCEPT !.coupon = NoCoupon, !.subtotal = 0, !.tax = 0,
                      !.shipping = 0, !.discount = 0, !.total = 0], prods)

Clear(c, prods) ==
    Save(c, [c EXCEPT !.items = <<>>, !.coupon = NoCoupon, !.subtotal = 0, !.tax = 0,
                      !.shipping = 0, !.discount = 0, !.total = 0], prods)

ApplyCoupon(c, coupon, prods) == Save(c, [c EXCEPT !.coupon = coupon], prods)

RemoveCoupon(c, prods) == Save(c, [c EXCEPT !.coupon = NoCoupon], prods)

SetShippingMethod(c, method, prods) == Save(c, [c EXCEPT !.shippingMethod = method], prods)


(***************************************************************************)
(* mergeCart: the guest cart snapshot of the request body is replayed      *)
(* through addItem, one save per guest line; a rejected save aborts the    *)
(* handler and leaves what the earlier saves persisted.                    *)
(***************************************************************************)
RECURSIVE MergeItems(_, _, _)
MergeItems(c, guestItems, prods) ==
    IF guestItems = <<>> THEN [cart |-> c, ok |-> TRUE]
    ELSE LET g == Head(guestItems)
             doc == AddItemDoc(c, g.product, g.quantity, g.variant)
         IN IF ValidCart(doc)
            THEN MergeItems(PreSave(c, doc, prods), Tail(guestItems), prods)
            ELSE [cart |-> c, ok |-> FALSE]

MergeCart(c0, guestCart, prods) ==
    LET merged == MergeItems(FindOrCreate(c0), guestCart.items, prods)
        withCoupon == IF guestCart.coupon.present
                      THEN ApplyCoupon(merged.cart, guestCart.coupon, prods)
                      ELSE merged.cart
    IN IF ~merged.ok THEN merged.cart
       ELSE IF guestCart.shippingMethod # ""
            THEN SetShippingMethod(withCoupon, guestCart.shippingMethod, prods)
            ELSE withCoupon

\* Bounds on the request bodies the model enumerates.
MaxGuestLines == 2
\* mergeCart's route has no validation: quantities and discounts are unchecked.
GuestQtys == {-1, 1}
NegativeCoupon == [present |-> TRUE, discount |-> -500, type |-> "fixed"]
GuestLines == [product : Products, quantity : GuestQtys, variant : {NullVariant, BareVariant}]
GuestItems ==
    UNION {[1..n -> GuestLines] : n \in 1..MaxGuestLines}
GuestCarts ==
    [items : GuestItems, coupon : {NoCoupon, NegativeCoupon}, shippingMethod : {"", "express"}]

\* The model keeps carts within MaxLines lines of at most MaxQty units.
WithinBounds(c) ==
    /\ Len(c.items) <= MaxLines
    /\ \A i \in 1..Len(c.items) : c.items[i].quantity <= MaxQty

(***************************************************************************)
(* Cart and wishlist request handlers, each as one sequential flow.        *)
(***************************************************************************)
GetCart(u) ==
    /\ ~carts[u].exists
    /\ carts' = [carts EXCEPT ![u] = NewCart]
    /\ UNCHANGED <<products, wishlists, orders, req, stock0>>

AddItemToCart(u, p, q, v) ==
    LET c == AddItem(FindOrCreate(carts[u]), p, q, v, products)
    IN /\ WithinBounds(c)
       /\ carts' = [carts EXCEPT ![u] = c]
       /\ UNCHANGED <<products, wishlists, orders, req, stock0>>

UpdateCartItem(u, p, q, v) ==
    /\ carts[u].exists
    /\ carts' = [carts EXCEPT ![u] = UpdateQuantity(carts[u], p, q, v, products)]
    /\ UNCHANGED <<products, wishlists, orders, req, stock0>>

RemoveCartItem(u, p, v) ==
    /\ carts[u].exists
    /\ carts' = [carts EXCEPT ![u] = RemoveItem(carts[u], p, v, products)]
    /\ UNCHANGED <<products, wishlists, orders, req, stock0>>

ClearCart(u) ==
    /\ carts[u].exists
    /\ carts' = [carts EXCEPT ![u] = Clear(carts[u], products)]
    /\ UNCHANGED <<products, wishlists, orders, req, stock0>>

ApplyCouponToCart(u, coupon) ==
    /\ carts[u].exists
    /\ carts' = [carts EXCEPT ![u] = ApplyCoupon(carts[u], coupon, products)]
    /\ UNCHANGED <<products, wishlists, orders, req, stock0>>

RemoveCouponFromCart(u) ==
    /\ carts[u].exists
    /\ carts' = [carts EXCEPT ![u] = RemoveCoupon(carts[u], products)]
    /\ UNCHANGED <<products, wishlists, orders, req, stock0>>

UpdateShippingMethod(u, method) ==
    /\ carts[u].exists
    /\ carts' = [carts EXCEPT ![u] = SetShippingMethod(carts[u], method, products)]
    /\ UNCHANGED <<products, wishlists, orders, req, stock0>>

MergeCartRequest(u, guestCart) ==
    LET c == MergeCart(carts[u], guestCart, products)
    IN /\ WithinBounds(c)
       /\ carts' = [carts EXCEPT ![u] = c]
       /\ UNCHANGED <<products, wishlists, orders, req, stock0>>

AddItemToWishlist(u, p) ==
    /\ p \notin wishlists[u]
    /\ wishlists' = [wishlists EXCEPT ![u] = @ \cup {p}]
    /\ UNCHANGED <<products, carts, orders, req, stock0>>

\* wishlist.moveToCart removes the product from the wishlist, then the cart's
\* addItem runs with the body's variant (the wishlist item carries none).
MoveWishlistItemToCart(u, p, q, v) ==
    LET c == AddItem(FindOrCreate(carts[u]), p, q, v, products)
    IN /\ p \in wishlists[u]
       /\ WithinBounds(c)
       /\ wishlists' = [wishlists EXCEPT ![u] = @ \ {p}]
       /\ carts' = [carts EXCEPT ![u] = c]
       /\ UNCHANGED <<products, orders, req, stock0>>

(***************************************************************************)
(* Stock ledger (Product methods).                                         *)
(***************************************************************************)
\* checkStock that needs more units in stock than are requested.
CheckStock_Strict(prod, quantity) ==
    IF ~prod.trackQuantity THEN [available |-> TRUE, availableQuantity |-> 0]
    ELSE IF prod.allowBackorders THEN [available |-> TRUE, availableQuantity |-> 0]
    ELSE IF prod.quantity > quantity THEN [available |-> TRUE, availableQuantity |-> 0]
    ELSE [available |-> FALSE, availableQuantity |-> prod.quantity]

\* checkStock(quantity): the availability policy.
CheckStock(prod, quantity) ==
    IF ~prod.trackQuantity THEN [available |-> TRUE, availableQuantity |-> 0]
    ELSE IF prod.allowBackorders THEN [available |-> TRUE, availableQuantity |-> 0]
    ELSE IF prod.quantity >= quantity THEN [available |-> TRUE, availableQuantity |-> 0]
    ELSE [available |-> FALSE, availableQuantity |-> prod.quantity]

Max(a, b) == IF a >= b THEN a ELSE b

\* updateStock whose increase adds one unit whatever the quantity given.
UpdateStock_IncreaseOne(prod, quantity, operation) ==
    IF ~prod.trackQuantity THEN prod.quantity
    ELSE IF operation = "decrease" THEN Max(0, prod.quantity - quantity)
    ELSE IF operation = "increase" THEN prod.quantity + 1
    ELSE prod.quantity

\* updateStock without the Math.max(0, ...) floor.
UpdateStock_NoFloor(prod, quantity, operation) ==
    IF ~prod.trackQuantity THEN prod.quantity
    ELSE IF operation = "decrease" THEN prod.quantity - quantity
    ELSE IF operation = "increase" THEN prod.quantity + quantity
    ELSE prod.quantity

\* updateStock(quantity, operation): the new inventory.quantity.
UpdateStock(prod, quantity, operation) ==
    IF ~prod.trackQuantity THEN prod.quantity
    ELSE IF operation = "decrease" THEN Max(0, prod.quantity - quantity)
    ELSE IF operation = "increase" THEN prod.quantity + quantity
    ELSE prod.quantity

\* validateStock that reports the first failing line only.
RECURSIVE StockIssues_FirstOnly(_, _)
StockIssues_FirstOnly(items, prods) ==
    IF items = <<>> THEN <<>>
    ELSE LET item == Head(items)
             prod == prods[item.product]
             stockCheck == CheckStock(prod, item.quantity)
         IN IF prod.trackQuantity /\ ~stockCheck.available
            THEN <<[product |-> item.product, requested |-> item.quantity,
                    available |-> stockCheck.availableQuantity]>>
            ELSE StockIssues_FirstOnly(Tail(items), prods)

\* cart.validateStock(): one issue per line whose tracked product fails checkStock.
RECURSIVE StockIssues(_, _)
StockIssues(items, prods) ==
    IF items = <<>> THEN <<>>
    ELSE LET item == Head(items)
             prod == prods[item.product]
             stockCheck == CheckStock(prod, item.quantity)
         IN (IF prod.trackQuantity /\ ~stockCheck.available
             THEN <<[product |-> item.product, requested |-> item.quantity,
                     available |-> stockCheck.availableQuantity]>>
             ELSE <<>>)
            \o StockIssues(Tail(items), prods)

ValidateStock(c, prods) ==
    LET stockIssues == StockIssues(c.items, prods)
    IN [isValid |-> Len(stockIssues) = 0, issues |-> stockIssues]

(***************************************************************************)
(* Orders.                                                                 *)
(***************************************************************************)
\* createOrder: the order line snapshotted from a cart line.
OrderItem(item, prods) ==
    [product |-> item.product, price |-> prods[item.product].price,
     quantity |-> item.quantity, variant |-> item.variant,
     totalPrice |-> (prods[item.product].price + PriceAdjustmentOf(item.variant))
                       * item.quantity]

RECURSIVE SumTotalPrice(_)
SumTotalPrice(orderItems) ==
    IF orderItems = <<>> THEN 0
    ELSE Head(orderItems).totalPrice + SumTotalPrice(Tail(orderItems))

\* shippingRates[shippingMethod || cart.shippingMethod] || 5.99
OrderShippingCost(override, cartMethod) ==
    LET method == IF override # "" THEN override ELSE cartMethod
    IN IF ShippingRate(method) # 0 THEN ShippingRate(method) ELSE 599

\* createOrder that adds the discount to the total.
NewOrder_AddsDiscount(u, c, prods, override) ==
    LET orderItems == [i \in 1..Len(c.items) |-> OrderItem(c.items[i], prods)]
        subtotal == SumTotalPrice(orderItems)
        tax == (subtotal * TaxRatePercent) \div 100
        shippingCost == OrderShippingCost(override, c.shippingMethod)
        discount == CouponDiscount(c.coupon, subtotal)
    IN [user |-> u, items |-> orderItems,
        shippingMethod |-> IF override # "" THEN override ELSE c.shippingMethod,
        subtotal |-> subtotal, tax |-> tax, shippingCost |-> shippingCost,
        discount |-> discount, total |-> subtotal + tax + shippingCost + discount,
        status |-> "pending", cancelledAt |-> FALSE, deliveredAt |-> FALSE]

\* createOrder: the document handed to Order.create.
NewOrder(u, c, prods, override) ==
    LET orderItems == [i \in 1..Len(c.items) |-> OrderItem(c.items[i], prods)]
        subtotal == SumTotalPrice(orderItems)
        tax == (subtotal * TaxRatePercent) \div 100
        shippingCost == OrderShippingCost(override, c.shippingMethod)
        discount == CouponDiscount(c.coupon, subtotal)
    IN [user |-> u, items |-> orderItems,
        shippingMethod |-> IF override # "" THEN override ELSE c.shippingMethod,
        subtotal |-> subtotal, tax |-> tax, shippingCost |-> shippingCost,
        discount |-> discount, total |-> subtotal + tax + shippingCost - discount,
        status |-> "pending", cancelledAt |-> FALSE, deliveredAt |-> FALSE]

\* orderSchema.status enum.
OrderStatuses ==
    {"pending", "confirmed", "processing", "shipped", "delivered", "cancelled",
     "returned"}

\* canBeCancelled() that also accepts an order in processing.
CanBeCancelled_AllowsProcessing(order) ==
    order.status \in {"pending", "confirmed", "processing"}

\* canBeCancelled()
CanBeCancelled(order) == order.status \in {"pending", "confirmed"}

\* updateStatus that zeroes the total of a cancelled order.
UpdateStatus_Refunds(order, newStatus) ==
    [order EXCEPT !.status = newStatus,
                  !.cancelledAt = IF newStatus = "cancelled" THEN TRUE ELSE @,
                  !.deliveredAt = IF newStatus = "delivered" THEN TRUE ELSE @,
                  !.total = IF newStatus = "cancelled" THEN 0 ELSE @]

\* updateStatus(newStatus): status and its timestamp.  Of the six timestamps
\* cancelledAt and deliveredAt are kept, as set / not set.
UpdateStatus(order, newStatus) ==
    [order EXCEPT !.status = newStatus,
                  !.cancelledAt = IF newStatus = "cancelled" THEN TRUE ELSE @,
                  !.deliveredAt = IF newStatus = "delivered" THEN TRUE ELSE @]

\* Hours in a day, and the return window in days.
HoursPerDay == 24
ReturnDays == 30

\* canBeReturned(), with elapsed = Date.now() - deliveredAt counted in hours:
\* Math.floor(elapsed / one day) <= 30.  Reading deliveredAt.getTime() of an
\* order that has no deliveredAt throws.
CanBeReturned(order, elapsed) ==
    IF order.status # "delivered" THEN "false"
    ELSE IF ~order.deliveredAt THEN "TypeError"
    ELSE IF elapsed \div HoursPerDay <= ReturnDays THEN "true"
    ELSE "false"

(***************************************************************************)
(* Catalog and request slots.  A request slot holds one in-flight handler: *)
(* its position (pc), the documents it loaded, and its response.  pre is   *)
(* the stored state when the handler started.                              *)
(***************************************************************************)
Price(p) == IF p = "p1" THEN 2000 ELSE 1500

NoProducts ==
    [p \in Products |-> [price |-> 0, trackQuantity |-> FALSE,
                         allowBackorders |-> FALSE, quantity |-> 0]]

IdleReq ==
    [kind |-> "none", pc |-> "idle", user |-> "u1", order |-> 0, i |-> 0,
     cart |-> NoCart, prods |-> NoProducts, override |-> "", items |-> <<>>,
     read |-> 0, response |-> "none", issues |-> <<>>, email |-> "none",
     pre |-> <<>>, elapsed |-> 0]

Stored == <<products, carts, orders>>

NoneInFlight == \A r \in Procs : req[r].pc = "idle"

(***************************************************************************)
(* createOrder, one action per persistence call.                           *)
(***************************************************************************)
\* Checkouts that have not yet created their order.
PendingCheckouts ==
    {r \in Procs : req[r].kind = "checkout" /\ req[r].pc \in {"validate", "create"}}

\* createOrder without the empty-cart check.
CheckoutLoad_NoEmptyCheck(r, u, override, cap) ==
    /\ req[r].pc = "idle"
    /\ \/ Len(orders) + Cardinality(PendingCheckouts) < cap
       \/ ~carts[u].exists
       \/ Len(carts[u].items) = 0
    /\ req' = [req EXCEPT ![r] =
                 [IdleReq EXCEPT !.kind = "checkout", !.user = u, !.cart = carts[u],
                                 !.prods = products, !.override = override,
                                 !.pre = Stored, !.pc = "validate"]]
    /\ UNCHANGED <<products, carts, wishlists, orders, stock0>>

\* Cart.findOne(...).populate(...) and the empty-cart check.  cap bounds the
\* number of orders of a run: a checkout starts only if its order still fits.
CheckoutLoad(r, u, override, cap) ==
    /\ req[r].pc = "idle"
    /\ \/ Len(orders) + Cardinality(PendingCheckouts) < cap
       \/ ~carts[u].exists
       \/ Len(carts[u].items) = 0
    /\ LET c == carts[u]
           base == [IdleReq EXCEPT !.kind = "checkout", !.user = u, !.cart = c,
                                   !.prods = products, !.override = override,
                                   !.pre = Stored]
       IN req' = [req EXCEPT ![r] =
                    IF ~c.exists \/ Len(c.items) = 0
                    THEN [base EXCEPT !.pc = "done", !.response = "EmptyCart"]
                    ELSE [base EXCEPT !.pc = "validate"]]
    /\ UNCHANGED <<products, carts, wishlists, orders, stock0>>

\* createOrder without the early return on an invalid stock validation.
CheckoutValidate_Proceeds(r) ==
    /\ req[r].pc = "validate"
    /\ req' = [req EXCEPT ![r] = [@ EXCEPT !.pc = "create", !.prods = products]]
    /\ UNCHANGED <<products, carts, wishlists, orders, stock0>>

\* cart.validateStock(): populate reads the products again, then the check.
CheckoutValidate(r) ==
    /\ req[r].pc = "validate"
    /\ LET stockValidation == ValidateStock(req[r].cart, products)
       IN req' = [req EXCEPT ![r] =
                    IF ~stockValidation.isValid
                    THEN [@ EXCEPT !.pc = "done", !.response = "OutOfStock",
                                   !.prods = products,
                                   !.issues = stockValidation.issues]
                    ELSE [@ EXCEPT !.pc = "create", !.prods = products]]
    /\ UNCHANGED <<products, carts, wishlists, orders, stock0>>

\* Order.create(...)
CheckoutCreate(r) ==
    /\ req[r].pc = "create"
    /\ orders' = Append(orders, NewOrder(req[r].user, req[r].cart, req[r].prods,
                                         req[r].override))
    /\ req' = [req EXCEPT ![r] = [@ EXCEPT !.pc = "stock_read", !.order = Len(orders) + 1,
                                           !.items = req[r].cart.items, !.i = 1]]
    /\ UNCHANGED <<products, carts, wishlists, stock0>>

\* Product.findById(item.product) of the inventory loops (createOrder and
\* cancelOrder); an untracked product is skipped.
StockRead(r) ==
    /\ req[r].pc = "stock_read"
    /\ LET item == req[r].items[req[r].i]
           prod == products[item.product]
           last == req[r].i = Len(req[r].items)
       IN req' = [req EXCEPT ![r] =
                    IF prod.trackQuantity
                    THEN [@ EXCEPT !.pc = "stock_write", !.read = prod.quantity]
                    ELSE IF ~last THEN [@ EXCEPT !.i = @ + 1]
                    ELSE IF req[r].kind = "checkout" THEN [@ EXCEPT !.pc = "clear"]
                    ELSE [@ EXCEPT !.pc = "done", !.response = "Cancelled"]]
    /\ UNCHANGED <<products, carts, wishlists, orders, stock0>>

\* product.updateStock(item.quantity, operation); product.save()
StockWrite(r) ==
    /\ req[r].pc = "stock_write"
    /\ LET item == req[r].items[req[r].i]
           loaded == [products[item.product] EXCEPT !.quantity = req[r].read]
           operation == IF req[r].kind = "checkout" THEN "decrease" ELSE "increase"
           last == req[r].i = Len(req[r].items)
       IN /\ products' = [products EXCEPT ![item.product].quantity =
                              UpdateStock(loaded, item.quantity, operation)]
          /\ req' = [req EXCEPT ![r] =
                       IF ~last THEN [@ EXCEPT !.pc = "stock_read", !.i = @ + 1]
                       ELSE IF req[r].kind = "checkout" THEN [@ EXCEPT !.pc = "clear"]
                       ELSE [@ EXCEPT !.pc = "done", !.response = "Cancelled"]]
    /\ UNCHANGED <<carts, wishlists, orders, stock0>>

\* product.save() of an inventory loop rejects (the database refuses the
\* write): nothing is written, the exception leaves the handler, whose
\* remaining statements do not run, and the caller gets an error response.
StockWriteFails(r) ==
    /\ req[r].pc = "stock_write"
    /\ req' = [req EXCEPT ![r] = [@ EXCEPT !.pc = "done", !.response = "Error"]]
    /\ UNCHANGED <<products, carts, wishlists, orders, stock0>>

\* cart.clear() on the cart document the handler loaded.
CheckoutClear(r) ==
    /\ req[r].pc = "clear"
    /\ carts' = [carts EXCEPT ![req[r].user] = Clear(req[r].cart, products)]
    /\ req' = [req EXCEPT ![r] = [@ EXCEPT !.pc = "email"]]
    /\ UNCHANGED <<products, wishlists, orders, stock0>>

\* createOrder whose email failure reaches the error handler instead of the
\* catch block.
CheckoutRespond_EmailThrows(r, emailSent) ==
    /\ req[r].pc = "email"
    /\ req' = [req EXCEPT ![r] =
                 [@ EXCEPT !.pc = "done",
                           !.response = IF emailSent THEN "Created" ELSE "Error",
                           !.email = IF emailSent THEN "sent" ELSE "failed"]]
    /\ UNCHANGED <<products, carts, wishlists, orders, stock0>>

\* sendEmail in its try/catch (a failure is logged), then the 201 response.
CheckoutRespond(r, emailSent) ==
    /\ req[r].pc = "email"
    /\ req' = [req EXCEPT ![r] =
                 [@ EXCEPT !.pc = "done", !.response = "Created",
                           !.email = IF emailSent THEN "sent" ELSE "failed"]]
    /\ UNCHANGED <<products, carts, wishlists, orders, stock0>>

(***************************************************************************)
(* cancelOrder.                                                            *)
(***************************************************************************)
\* cancelOrder without the canBeCancelled() check.
CancelLoad_NoCheck(r, u, k) ==
    /\ req[r].pc = "idle"
    /\ k \in 1..Len(orders)
    /\ LET base == [IdleReq EXCEPT !.kind = "cancel", !.user = u, !.order = k,
                                   !.pre = Stored]
       IN req' = [req EXCEPT ![r] =
                    IF orders[k].user # u
                    THEN [base EXCEPT !.pc = "done", !.response = "Forbidden"]
                    ELSE [base EXCEPT !.pc = "cancel_save", !.items = orders[k].items,
                                      !.i = 1]]
    /\ UNCHANGED <<products, carts, wishlists, orders, stock0>>

\* Order.findById, the ownership check and canBeCancelled().
CancelLoad(r, u, k) ==
    /\ req[r].pc = "idle"
    /\ k \in 1..Len(orders)
    /\ LET base == [IdleReq EXCEPT !.kind = "cancel", !.user = u, !.order = k,
                                   !.pre = Stored]
       IN req' = [req EXCEPT ![r] =
                    IF orders[k].user # u
                    THEN [base EXCEPT !.pc = "done", !.response = "Forbidden"]
                    ELSE IF ~CanBeCancelled(orders[k])
                    THEN [base EXCEPT !.pc = "done", !.response = "CannotCancel"]
                    ELSE [base EXCEPT !.pc = "cancel_save", !.items = orders[k].items,
                                      !.i = 1]]
    /\ UNCHANGED <<products, carts, wishlists, orders, stock0>>

\* order.updateStatus("cancelled")
CancelSave(r) ==
    /\ req[r].pc = "cancel_save"
    /\ orders' = [orders EXCEPT ![req[r].order] = UpdateStatus(@, "cancelled")]
    /\ req' = [req EXCEPT ![r] = [@ EXCEPT !.pc = "stock_read"]]
    /\ UNCHANGED <<products, carts, wishlists, stock0>>

(***************************************************************************)
(* Administration: order status, bulk status, catalog update; the return   *)
(* eligibility check.                                                      *)
(***************************************************************************)
\* adminUpdateOrderStatus that restores the inventory when it cancels, as
\* cancelOrder does.
AdminUpdateOrderStatus_Restocks(k, status) ==
    /\ NoneInFlight
    /\ k \in 1..Len(orders)
    /\ orders' = [orders EXCEPT ![k] = UpdateStatus(@, status)]
    /\ products' = [p \in Products |->
                       IF status = "cancelled" /\ products[p].trackQuantity
                       THEN [products[p] EXCEPT !.quantity = @ + QtyOf(orders[k].items, p)]
                       ELSE products[p]]
    /\ UNCHANGED <<carts, wishlists, req, stock0>>

\* adminUpdateOrderStatus: order.updateStatus(status), then a save of the
\* tracking number and notes (not kept here).
AdminUpdateOrderStatus(k, status) ==
    /\ NoneInFlight
    /\ k \in 1..Len(orders)
    /\ orders' = [orders EXCEPT ![k] = UpdateStatus(@, status)]
    /\ UNCHANGED <<products, carts, wishlists, req, stock0>>

\* POST /bulk, operation updateStatus, target orders:
\* Order.updateMany({_id: {$in: ids}}, {status}) writes the status alone.
BulkUpdateOrderStatus(ids, status) ==
    /\ NoneInFlight
    /\ ids # {}
    /\ ids \subseteq 1..Len(orders)
    /\ orders' = [k \in 1..Len(orders) |->
                    IF k \in ids THEN [orders[k] EXCEPT !.status = status]
                    ELSE orders[k]]
    /\ UNCHANGED <<products, carts, wishlists, req, stock0>>

\* PUT /api/products/:id with a price in the body: Product.findByIdAndUpdate.
UpdateProduct(p, price) ==
    /\ NoneInFlight
    /\ products[p].price # price
    /\ products' = [products EXCEPT ![p].price = price]
    /\ UNCHANGED <<carts, wishlists, orders, req, stock0>>

\* order.canBeReturned() evaluated elapsed hours after deliveredAt.
ReturnCheck(r, k, elapsed) ==
    /\ req[r].pc = "idle"
    /\ k \in 1..Len(orders)
    /\ req' = [req EXCEPT ![r] =
                 [IdleReq EXCEPT !.kind = "return_check", !.order = k,
                                 !.elapsed = elapsed, !.pre = Stored, !.pc = "done",
                                 !.response = CanBeReturned(orders[k], elapsed)]]
    /\ UNCHANGED <<products, carts, wishlists, orders, stock0>>

\* The response has been sent; the slot is free for the next request.
Finish(r) ==
    /\ req[r].pc = "done"
    /\ req' = [req EXCEPT ![r] = IdleReq]
    /\ UNCHANGED <<products, carts, wishlists, orders, stock0>>

(***************************************************************************)
(* SpecCart: one user's cart under every cart and wishlist request, with a *)
(* fixed catalog.                                                          *)
(***************************************************************************)
InitCart ==
    /\ products = [p \in Products |->
                     [price |-> Price(p), trackQuantity |-> TRUE,
                      allowBackorders |-> FALSE, quantity |-> MaxStock]]
    /\ carts = [u \in Users |-> NoCart]
    /\ wishlists = [u \in Users |-> {}]
    /\ orders = <<>>
    /\ req = [r \in Procs |-> IdleReq]
    /\ stock0 = [p \in Products |-> MaxStock]

NextCart ==
    \/ GetCart("u1")
    \/ \E p \in Products, q \in 1..MaxQty, v \in RequestVariants : AddItemToCart("u1", p, q, v)
    \/ \E p \in Products, q \in 0..MaxQty, v \in RequestVariants : UpdateCartItem("u1", p, q, v)
    \/ \E p \in Products, v \in RequestVariants : RemoveCartItem("u1", p, v)
    \/ ClearCart("u1")
    \/ \E coupon \in RouteCoupons : ApplyCouponToCart("u1", coupon)
    \/ RemoveCouponFromCart("u1")
    \/ \E method \in ShippingMethods : UpdateShippingMethod("u1", method)
    \/ \E guestCart \in GuestCarts : MergeCartRequest("u1", guestCart)
    \/ \E p \in Products : AddItemToWishlist("u1", p)
    \/ \E p \in Products, q \in 1..MaxQty, v \in RequestVariants :
          MoveWishlistItemToCart("u1", p, q, v)

SpecCart == InitCart /\ [][NextCart]_vars


(***************************************************************************)
(* Spec: the store with one request in flight at a time.  One user builds  *)
(* a cart, checks out and cancels; the catalog's inventory settings and    *)
(* quantities are chosen initially.                                        *)
(***************************************************************************)
InventoryConfigs ==
    {[trackQuantity |-> TRUE, allowBackorders |-> FALSE],
     [trackQuantity |-> TRUE, allowBackorders |-> TRUE],
     [trackQuantity |-> FALSE, allowBackorders |-> FALSE]}

Init ==
    /\ \E cfg \in [Products -> InventoryConfigs], qty \in [Products -> 0..MaxStock] :
          /\ products = [p \in Products |->
                           [price |-> Price(p), trackQuantity |-> cfg[p].trackQuantity,
                            allowBackorders |-> cfg[p].allowBackorders,
                            quantity |-> qty[p]]]
          /\ stock0 = qty
    /\ carts = [u \in Users |-> NoCart]
    /\ wishlists = [u \in Users |-> {}]
    /\ orders = <<>>
    /\ req = [r \in Procs |-> IdleReq]

\* Request quantities of the store specifications: up to one unit more than
\* the largest initial stock.
StoreQtys == 1..(MaxStock + 1)

StoreCartOk(c) == \A i \in 1..Len(c.items) : c.items[i].quantity <= MaxStock + 1

\* Cart requests while no order handler is in flight and another order can
\* still be created.
BuildCart(u, qtys, variants, cap) ==
    /\ NoneInFlight
    /\ Len(orders) < cap
    /\ \E p \in Products, q \in qtys, v \in variants :
          AddItemToCart(u, p, q, v) /\ StoreCartOk(carts'[u])

CouponCart(u, cap) ==
    /\ NoneInFlight
    /\ Len(orders) < cap
    /\ \E coupon \in RouteCoupons : ApplyCouponToCart(u, coupon)

Handler(r) ==
    \/ CheckoutValidate(r)
    \/ CheckoutCreate(r)
    \/ StockRead(r)
    \/ StockWrite(r)
    \/ CheckoutClear(r)
    \/ \E emailSent \in BOOLEAN : CheckoutRespond(r, emailSent)
    \/ CancelSave(r)
    \/ Finish(r)

Next ==
    \/ BuildCart("u1", StoreQtys, {NullVariant, FullVariant}, MaxOrders)
    \/ CouponCart("u1", MaxOrders)
    \/ \E override \in {"", "express"} :
          NoneInFlight /\ CheckoutLoad("r1", "u1", override, MaxOrders)
    \/ \E k \in 1..MaxOrders : NoneInFlight /\ CancelLoad("r1", "u1", k)
    \/ Handler("r1")

Spec == Init /\ [][Next]_vars

\* SpecFault: the same store, where a save of the inventory loops can fail.
NextFault ==
    \/ Next
    \/ StockWriteFails("r1")

SpecFault == Init /\ [][NextFault]_vars

(***************************************************************************)
(* SpecRace: two users, two request slots; the order handlers interleave   *)
(* at every persistence call.                                              *)
(***************************************************************************)
InitRace ==
    /\ \E qty \in [Products -> 0..MaxStock] :
          /\ products = [p \in Products |->
                           [price |-> Price(p), trackQuantity |-> TRUE,
                            allowBackorders |-> FALSE, quantity |-> qty[p]]]
          /\ stock0 = qty
    /\ carts = [u \in Users |-> NoCart]
    /\ wishlists = [u \in Users |-> {}]
    /\ orders = <<>>
    /\ req = [r \in Procs |-> IdleReq]

\* Each user has one request in flight at a time: slot r1 serves u1, r2 serves u2.
UserOf(r) == IF r = "r1" THEN "u1" ELSE "u2"

NextRace ==
    \/ \E u \in Users : BuildCart(u, 1..MaxStock, {NullVariant}, MaxRaceOrders)
    \/ \E r \in Procs : CheckoutLoad(r, UserOf(r), "", MaxRaceOrders)
    \/ \E r \in Procs, k \in 1..MaxRaceOrders : CancelLoad(r, UserOf(r), k)
    \/ \E r \in Procs : Handler(r)

SpecRace == InitRace /\ [][NextRace]_vars


(***************************************************************************)
(* SpecLedger: one user's checkouts and cancellations, one request at a    *)
(* time, over a run of up to MaxRaceOrders orders.                         *)
(***************************************************************************)
NextLedger ==
    \/ BuildCart("u1", StoreQtys, {NullVariant, FullVariant}, MaxRaceOrders)
    \/ NoneInFlight /\ CheckoutLoad("r1", "u1", "", MaxRaceOrders)
    \/ \E k \in 1..MaxRaceOrders : NoneInFlight /\ CancelLoad("r1", "u1", k)
    \/ Handler("r1")

SpecLedger == Init /\ [][NextLedger]_vars

(***************************************************************************)
(* SpecCancelRace: one user's order and two cancelOrder requests for it in *)
(* flight (two tabs, or a retry); checkouts run alone.                     *)
(***************************************************************************)
NextCancelRace ==
    \/ BuildCart("u1", 1..MaxStock, {NullVariant}, MaxOrders)
    \/ NoneInFlight /\ CheckoutLoad("r1", "u1", "", MaxOrders)
    \/ \E r \in Procs, k \in 1..MaxOrders :
          /\ \A o \in Procs : req[o].kind # "checkout"
          /\ CancelLoad(r, "u1", k)
    \/ \E r \in Procs : Handler(r)

SpecCancelRace == InitRace /\ [][NextCancelRace]_vars

(***************************************************************************)
(* SpecCartRace: two addItemToCart requests of one user in flight, each a  *)
(* load (Cart.findOne) followed by addItem's save.  The requests in flight *)
(* add different products, neither on a line of the stored cart, so each   *)
(* addItem pushes a line.                                                  *)
(***************************************************************************)
\* What a save writes when it sends the pushed lines and the recomputed
\* totals as an update of the stored document instead of the whole document.
SaveAtomics(stored, loaded, doc) ==
    [stored EXCEPT !.items = @ \o SubSeq(doc.items, Len(loaded.items) + 1, Len(doc.items)),
                   !.subtotal = doc.subtotal, !.discount = doc.discount,
                   !.shipping = doc.shipping, !.tax = doc.tax, !.total = doc.total]

\* addItemToCart up to the cart document in hand: Product.findById,
\* Cart.findOne and Cart.create when there is none.
CartAddLoad(r, u, p, q) ==
    /\ req[r].pc = "idle"
    /\ FindItem(carts[u].items, p, NullVariant) = 0
    /\ \A o \in Procs : req[o].kind = "add_item" => req[o].items[1].product # p
    /\ carts' = [carts EXCEPT ![u] = FindOrCreate(@)]
    /\ req' = [req EXCEPT ![r] =
                 [IdleReq EXCEPT !.kind = "add_item", !.user = u, !.pc = "add_save",
                                 !.cart = FindOrCreate(carts[u]),
                                 !.items = <<[product |-> p, quantity |-> q,
                                              variant |-> NullVariant]>>,
                                 !.pre = Stored]]
    /\ UNCHANGED <<products, wishlists, orders, stock0>>

\* cart.addItem(productId, quantity, variant) on the loaded document, its
\* save, and the 201 response.  atomics chooses what the save writes: the
\* pushed line and the totals onto the stored document, or the whole
\* loaded document.
CartAddSave(r, atomics) ==
    /\ req[r].pc = "add_save"
    /\ LET line == req[r].items[1]
           loaded == req[r].cart
           doc == AddItem(loaded, line.product, line.quantity, line.variant, products)
       IN carts' = [carts EXCEPT ![req[r].user] =
                       IF atomics THEN SaveAtomics(@, loaded, doc) ELSE doc]
    /\ req' = [req EXCEPT ![r] = [@ EXCEPT !.pc = "done", !.response = "Created"]]
    /\ UNCHANGED <<products, wishlists, orders, stock0>>

NextCartRace ==
    \/ \E r \in Procs, p \in Products, q \in 1..MaxQty : CartAddLoad(r, "u1", p, q)
    \/ \E r \in Procs, atomics \in BOOLEAN : CartAddSave(r, atomics)
    \/ \E r \in Procs : Finish(r)
    \/ NoneInFlight /\ ClearCart("u1")

SpecCartRace == InitCart /\ [][NextCartRace]_vars

(***************************************************************************)
(* SpecOrder: the life of one order, one request in flight at a time:      *)
(* checkout, cancellation, the administrator's status and catalog updates, *)
(* and the return eligibility check.  Tracked products accept backorders   *)
(* here, so every cart can be checked out.                                 *)
(***************************************************************************)
OrderConfigs ==
    {[trackQuantity |-> TRUE, allowBackorders |-> TRUE],
     [trackQuantity |-> FALSE, allowBackorders |-> FALSE]}

InitOrder ==
    /\ \E cfg \in [Products -> OrderConfigs], qty \in [Products -> 0..MaxStock] :
          /\ cfg["p1"].trackQuantity
          /\ products = [p \in Products |->
                           [price |-> Price(p), trackQuantity |-> cfg[p].trackQuantity,
                            allowBackorders |-> cfg[p].allowBackorders,
                            quantity |-> qty[p]]]
          /\ stock0 = qty
    /\ carts = [u \in Users |-> NoCart]
    /\ wishlists = [u \in Users |-> {}]
    /\ orders = <<>>
    /\ req = [r \in Procs |-> IdleReq]

\* Catalog prices an administrator sets.
NewPrices == {Price("p1"), Price("p1") + 500}

\* Elapsed hours at which return eligibility is asked: at delivery, at 30
\* days, one hour later, and at 31 days.
ElapsedHours ==
    {0, ReturnDays * HoursPerDay, ReturnDays * HoursPerDay + 1,
     (ReturnDays + 1) * HoursPerDay}

\* addItemToCart while no order handler is in flight; once the order exists
\* the emptied cart is refilled with one line.
OrderCart(u) ==
    /\ NoneInFlight
    /\ Len(orders) < MaxOrders \/ Len(carts[u].items) = 0
    /\ \E p \in Products, q \in StoreQtys :
          AddItemToCart(u, p, q, NullVariant) /\ StoreCartOk(carts'[u])

\* An order can be reopened and cancelled again, and each cancellation
\* restocks: cancellations start while no quantity is above MaxStock.
RestockRoom == \A p \in Products : products[p].quantity <= MaxStock

NextOrder ==
    \/ OrderCart("u1")
    \/ NoneInFlight /\ CheckoutLoad("r1", "u1", "", MaxOrders)
    \/ \E k \in 1..MaxOrders :
          NoneInFlight /\ RestockRoom /\ CancelLoad("r1", "u1", k)
    \/ \E k \in 1..MaxOrders, status \in OrderStatuses : AdminUpdateOrderStatus(k, status)
    \/ \E ids \in SUBSET (1..MaxOrders), status \in OrderStatuses :
          BulkUpdateOrderStatus(ids, status)
    \/ \E price \in NewPrices : UpdateProduct("p1", price)
    \/ \E k \in 1..MaxOrders, elapsed \in ElapsedHours : ReturnCheck("r1", k, elapsed)
    \/ Handler("r1")

SpecOrder == InitOrder /\ [][NextOrder]_vars

(***************************************************************************)
(* Properties.                                                             *)
(***************************************************************************)
\* The variant selection a line stands for: name, value and the price
\* adjustment in effect (0 when none is given); no variant is its own selection.
VariantSignature(v) ==
    IF v.isNull THEN <<"", "", 0>> ELSE <<v.name, v.value, PriceAdjustmentOf(v)>>

\* The lines of cart c with line identity (p, signature of v).
LinesOf(c, p, v) ==
    {i \in 1..Len(c.items) :
        c.items[i].product = p
        /\ VariantSignature(c.items[i].variant) = VariantSignature(v)}

\* Units of product p on the orders that are not cancelled.
RECURSIVE OrderedQty(_, _)
OrderedQty(os, p) ==
    IF os = <<>> THEN 0
    ELSE (IF Head(os).status # "cancelled" THEN QtyOf(Head(os).items, p) ELSE 0)
         + OrderedQty(Tail(os), p)

\* C1: no overselling under concurrent checkouts: for every product that
\* tracks quantity and disallows backorders, the units on the created
\* (not cancelled) orders never exceed the quantity that was in stock, so of
\* two interleaved checkouts for the last unit only one creates an order.
C1_NoOversell ==
    \A p \in Products :
        (products[p].trackQuantity /\ ~products[p].allowBackorders)
            => OrderedQty(orders, p) <= stock0[p]

\* C2: in every persisted cart state, total = subtotal - discount + tax + shipping.
C2_CartTotalIdentity ==
    \A u \in Users :
        carts[u].total = carts[u].subtotal - carts[u].discount + carts[u].tax
                            + carts[u].shipping

\* C2 witness: a cart with lines, a coupon and a non-default shipping method,
\* priced by the recompute.
C2_Witness ==
    /\ Len(carts["u1"].items) = 2
    /\ carts["u1"].coupon.present
    /\ carts["u1"].shippingMethod = "express"
    /\ carts["u1"].discount > 0
    /\ carts["u1"].tax > 0
    /\ carts["u1"].total = carts["u1"].subtotal - carts["u1"].discount
                              + carts["u1"].tax + carts["u1"].shipping

\* C3: addItem on a cart that holds one line of identity (product, variant)
\* with quantity q1 leaves exactly one line of that identity, with quantity
\* q1 + q2, for every variant including none.
C3_AddItemTwiceOneLine ==
    [][\A p \in Products, q \in 1..MaxQty, v \in RequestVariants :
          (AddItemToCart("u1", p, q, v) /\ Cardinality(LinesOf(carts["u1"], p, v)) = 1)
             => /\ Cardinality(LinesOf(carts'["u1"], p, v)) = 1
                /\ \A i \in LinesOf(carts["u1"], p, v), j \in LinesOf(carts'["u1"], p, v) :
                      carts'["u1"].items[j].quantity = carts["u1"].items[i].quantity + q
      ]_vars

\* C4: no two lines of a cart have the same (product, variant signature) identity.
C4_NoDuplicateIdentity ==
    \A u \in Users : \A i, j \in 1..Len(carts[u].items) :
        (i # j) =>
            \/ carts[u].items[i].product # carts[u].items[j].product
            \/ VariantSignature(carts[u].items[i].variant)
                  # VariantSignature(carts[u].items[j].variant)

\* C5: a product's inventory quantity is never negative.
C5_QuantityNonNegative ==
    \A p \in Products : products[p].quantity >= 0

\* C5 witness: a checkout has decreased a tracked product by more units than
\* it had, and the quantity stands at 0.
C5_Witness ==
    \E r \in Procs, p \in Products :
        /\ req[r].kind = "checkout" /\ req[r].pc = "clear"
        /\ products[p].trackQuantity
        /\ QtyOf(req[r].items, p) > stock0[p]
        /\ products[p].quantity = 0

\* C6: round trip: once the only order has been created and cancelled, with
\* nothing else in between, every product is back at its original quantity.
C6_RoundTrip ==
    (NoneInFlight /\ Len(orders) = 1 /\ orders[1].status = "cancelled")
        => \A p \in Products : products[p].quantity = stock0[p]

\* C7: a checkout of a cart with no lines, or of a user with no cart, is
\* rejected and leaves orders, inventory and the cart as they were.
C7_EmptyCartRejected ==
    \A r \in Procs :
        (req[r].kind = "checkout"
         /\ (~req[r].cart.exists \/ Len(req[r].cart.items) = 0))
            => /\ req[r].pc = "done"
               /\ req[r].response = "EmptyCart"
               /\ Stored = req[r].pre

\* C7 witness: an empty-cart rejection of an existing cart whose lines were
\* checked out before.
C7_Witness ==
    \E r \in Procs :
        /\ req[r].response = "EmptyCart"
        /\ req[r].cart.exists
        /\ Len(orders) = 1

\* C8: when validateStock reports the loaded cart invalid, the checkout is
\* rejected with validateStock's issues and nothing stored has changed.
C8_InvalidStockNoSideEffects ==
    \A r \in Procs :
        (req[r].kind = "checkout" /\ req[r].pc # "validate"
         /\ req[r].response # "EmptyCart"
         /\ ~ValidateStock(req[r].cart, req[r].prods).isValid)
            => /\ req[r].pc = "done"
               /\ req[r].response = "OutOfStock"
               /\ req[r].issues = ValidateStock(req[r].cart, req[r].prods).issues
               /\ Len(req[r].issues) > 0
               /\ Stored = req[r].pre

\* C8 witness: a rejection of a two-line cart that carries a coupon.
C8_Witness ==
    \E r \in Procs :
        /\ req[r].response = "OutOfStock"
        /\ Len(req[r].cart.items) = 2
        /\ req[r].cart.coupon.present
        /\ Len(req[r].issues) >= 1

\* C9: after a successful checkout one more order exists, pending, with one
\* line per cart line; every tracked product is down by the ordered units,
\* floored at 0; untracked products are unchanged; the cart has no lines.
C9_CheckoutEffects ==
    \A r \in Procs :
        (req[r].pc = "done" /\ req[r].response = "Created")
            => LET c == req[r].cart
                   o == orders[req[r].order]
                   before == req[r].pre[1]
               IN /\ Len(orders) = Len(req[r].pre[3]) + 1
                  /\ req[r].order = Len(orders)
                  /\ o.status = "pending"
                  /\ Len(o.items) = Len(c.items)
                  /\ \A i \in 1..Len(c.items) :
                        /\ o.items[i].product = c.items[i].product
                        /\ o.items[i].quantity = c.items[i].quantity
                  /\ \A p \in Products :
                        products[p].quantity =
                            IF before[p].trackQuantity
                            THEN Max(0, before[p].quantity - QtyOf(c.items, p))
                            ELSE before[p].quantity
                  /\ carts[req[r].user].items = <<>>

\* C9 witness: a created order of two lines, one of a tracked product ordered
\* beyond its stock and one of an untracked product.
C9_Witness ==
    \E r \in Procs :
        /\ req[r].pc = "done" /\ req[r].response = "Created"
        /\ Len(req[r].cart.items) = 2
        /\ \E p \in Products :
              products[p].trackQuantity /\ QtyOf(req[r].cart.items, p) > stock0[p]
        /\ \E p \in Products :
              ~products[p].trackQuantity /\ QtyOf(req[r].cart.items, p) > 0

\* C10: without a shipping override, the totals stored on the created order
\* equal the totals of the cart it was created from.
C10_OrderTotalsMatchCart ==
    \A r \in Procs :
        (req[r].pc = "done" /\ req[r].response = "Created" /\ req[r].override = "")
            => LET c == req[r].cart
                   o == orders[req[r].order]
               IN /\ o.subtotal = c.subtotal
                  /\ o.discount = c.discount
                  /\ o.tax = c.tax
                  /\ o.shippingCost = c.shipping
                  /\ o.total = c.total


\* C11: every order's total is subtotal + tax + shippingCost - discount, and
\* its subtotal is the sum of its lines' line totals, from creation on.
C11_OrderTotalIdentity ==
    \A k \in 1..Len(orders) :
        /\ orders[k].total = orders[k].subtotal + orders[k].tax
                                + orders[k].shippingCost - orders[k].discount
        /\ orders[k].subtotal =
              QtyOf([i \in 1..Len(orders[k].items) |->
                        [product |-> "line", quantity |-> orders[k].items[i].totalPrice]],
                    "line")

\* C11 witness: an order of two lines created from a cart with a coupon.
C11_Witness ==
    \E k \in 1..Len(orders) :
        /\ Len(orders[k].items) = 2
        /\ orders[k].discount > 0
        /\ orders[k].tax > 0
        /\ orders[k].shippingCost > 0


\* The priced part of an order: per line the unit price, quantity and line
\* total, and the order's subtotal, tax, shipping cost, discount and total.
Snapshot(o) ==
    <<[i \in 1..Len(o.items) |->
          <<o.items[i].price, o.items[i].quantity, o.items[i].totalPrice>>],
      o.subtotal, o.tax, o.shippingCost, o.discount, o.total>>

\* C12: no step changes the priced part of an existing order: not a catalog
\* price change, a cart request, a status update or a cancellation.
C12_SnapshotsFrozen ==
    [][/\ Len(orders') >= Len(orders)
       /\ \A k \in 1..Len(orders) : Snapshot(orders'[k]) = Snapshot(orders[k])]_vars

\* C12 witness: a cancelled order with a line of p1 at the price it was
\* ordered at, after the catalog price of p1 changed and the cart was refilled.
C12_Witness ==
    /\ Len(orders) = 1
    /\ orders[1].status = "cancelled"
    /\ orders[1].cancelledAt
    /\ products["p1"].price # Price("p1")
    /\ \E i \in 1..Len(orders[1].items) :
          /\ orders[1].items[i].product = "p1"
          /\ orders[1].items[i].price = Price("p1")
    /\ Len(carts["u1"].items) > 0


\* C13: cancelOrder by its owner on a pending or confirmed order succeeds,
\* leaves the order cancelled with cancelledAt set, and raises every tracked
\* product by the units ordered of it; untracked products keep their quantity.
C13_CancelEffects ==
    \A r \in Procs :
        (/\ req[r].kind = "cancel" /\ req[r].pc = "done"
         /\ req[r].pre[3][req[r].order].user = req[r].user
         /\ req[r].pre[3][req[r].order].status \in {"pending", "confirmed"})
            => LET o == orders[req[r].order]
                   before == req[r].pre[1]
               IN /\ req[r].response = "Cancelled"
                  /\ o.status = "cancelled"
                  /\ o.cancelledAt
                  /\ \A p \in Products :
                        products[p].quantity =
                            before[p].quantity
                              + (IF before[p].trackQuantity THEN QtyOf(o.items, p) ELSE 0)

\* C13 witness: a confirmed order with lines of 2 units and of 1 unit of two
\* tracked products has been cancelled.
C13_Witness ==
    \E r \in Procs :
        /\ req[r].kind = "cancel" /\ req[r].pc = "done"
        /\ req[r].response = "Cancelled"
        /\ req[r].pre[3][req[r].order].status = "confirmed"
        /\ Len(orders[req[r].order].items) = 2
        /\ orders[req[r].order].items[1].quantity = 2
        /\ orders[req[r].order].items[2].quantity = 1
        /\ \A p \in Products : products[p].trackQuantity


\* C14: canBeCancelled is true exactly for pending and confirmed orders, and
\* cancelOrder rejects, changing nothing, exactly when the order loaded is in
\* another status; so a cancel after a completed cancellation is rejected.
C14_CancellableStatuses ==
    /\ \A k \in 1..Len(orders) :
          /\ CanBeCancelled(orders[k]) <=> orders[k].status \in {"pending", "confirmed"}
          /\ orders[k].status \in {"processing", "shipped", "delivered", "cancelled",
                                   "returned"} => ~CanBeCancelled(orders[k])
    /\ \A r \in Procs :
          (req[r].kind = "cancel" /\ req[r].pre[3][req[r].order].user = req[r].user)
             => /\ req[r].response = "CannotCancel"
                     <=> req[r].pre[3][req[r].order].status \notin {"pending", "confirmed"}
                /\ req[r].response = "CannotCancel"
                     => req[r].pc = "done" /\ Stored = req[r].pre

\* C14 witness: a cancel is rejected on an order that a completed
\* cancellation left cancelled, with its units restocked.
C14_Witness ==
    \E r \in Procs :
        /\ req[r].kind = "cancel"
        /\ req[r].response = "CannotCancel"
        /\ orders[req[r].order].status = "cancelled"
        /\ orders[req[r].order].cancelledAt
        /\ \E p \in Products : products[p].quantity > stock0[p]


\* C15: for an order whose deliveredAt is set whenever it is delivered,
\* canBeReturned is true exactly when the status is delivered and at most 30
\* days have elapsed since deliveredAt; past 30 days it is false.
C15_ReturnWindow ==
    \A r \in Procs :
        (/\ req[r].kind = "return_check"
         /\ (req[r].pre[3][req[r].order].status = "delivered"
                => req[r].pre[3][req[r].order].deliveredAt))
            => (req[r].response = "true"
                  <=> /\ req[r].pre[3][req[r].order].status = "delivered"
                      /\ req[r].elapsed <= ReturnDays * HoursPerDay)


\* C16: cancelled and returned are terminal: no step changes the status of an
\* order that is cancelled or returned.
C16_TerminalStatuses ==
    [][\A k \in 1..Len(orders) :
          orders[k].status \in {"cancelled", "returned"}
             => /\ k <= Len(orders')
                /\ orders'[k].status = orders[k].status]_vars


\* C17: after clear() the persisted cart has no lines and no coupon, and its
\* subtotal, discount, tax, shipping and total are all 0.
C17_ClearZeroes ==
    [][ClearCart("u1")
         => /\ carts'["u1"].items = <<>>
            /\ ~carts'["u1"].coupon.present
            /\ carts'["u1"].subtotal = 0
            /\ carts'["u1"].discount = 0
            /\ carts'["u1"].tax = 0
            /\ carts'["u1"].shipping = 0
            /\ carts'["u1"].total = 0]_vars


\* The pricing algorithm, line by line: the price of line i of cart c.
LinePrice(c, i) ==
    LET v == c.items[i].variant
    IN (products[c.items[i].product].price + (IF v.isNull THEN 0 ELSE v.priceAdjustment))
          * c.items[i].quantity

\* The prices of the first n lines of cart c, added up.
RECURSIVE LinePriceSum(_, _)
LinePriceSum(c, n) ==
    IF n = 0 THEN 0 ELSE LinePriceSum(c, n - 1) + LinePrice(c, n)

\* C18: every cart with lines carries the totals of the pricing algorithm:
\* subtotal = sum of (unit price + variant adjustment) * quantity; discount =
\* subtotal * d / 100 (percentage), d (fixed), 0 (no coupon); tax = 8% of
\* (subtotal - discount); shipping by method; total = subtotal - discount +
\* tax + shipping.  One line of 2000 x 3 with standard shipping gives
\* 6000 / 480 / 599 / 7079, and with a 10% coupon 600 / 432 / 6431.
C18_PricingAlgorithm ==
    \A u \in Users :
        LET c == carts[u]
            n == Len(c.items)
        IN n > 0 =>
            /\ c.subtotal = LinePriceSum(c, n)
            /\ ~c.coupon.present => c.discount = 0
            /\ (c.coupon.present /\ c.coupon.type = "percentage")
                  => 100 * c.discount = c.subtotal * c.coupon.discount
            /\ (c.coupon.present /\ c.coupon.type = "fixed")
                  => c.discount = c.coupon.discount
            /\ 100 * c.tax = 8 * (c.subtotal - c.discount)
            /\ c.shipping = (CASE c.shippingMethod = "standard" -> 599
                               [] c.shippingMethod = "express" -> 1299
                               [] c.shippingMethod = "overnight" -> 2499)
            /\ c.total = c.subtotal - c.discount + c.tax + c.shipping
            /\ (/\ c.items = <<[product |-> "p1", quantity |-> 3, variant |-> NullVariant]>>
                /\ c.shippingMethod = "standard")
                  => /\ c.subtotal = 6000
                     /\ ~c.coupon.present
                           => c.tax = 480 /\ c.shipping = 599 /\ c.total = 7079
                     /\ c.coupon = PercentCoupon
                           => c.discount = 600 /\ c.tax = 432 /\ c.total = 6431

\* C18 witness: the cart of one line of 2000 x 3, standard shipping and the
\* 10% coupon, priced at 6431.
C18_Witness ==
    /\ carts["u1"].items = <<[product |-> "p1", quantity |-> 3, variant |-> NullVariant]>>
    /\ carts["u1"].shippingMethod = "standard"
    /\ carts["u1"].coupon = PercentCoupon
    /\ carts["u1"].total = 6431


\* C19: checkStock is available when the product does not track quantity,
\* else when it allows backorders, else exactly when quantity >= requested;
\* when unavailable it reports the current quantity, which is what a
\* rejected checkout's issues carry.
C19_CheckAvailability ==
    /\ \A p \in Products, q \in StoreQtys :
          LET prod == products[p]
              res == CheckStock(prod, q)
          IN /\ ~prod.trackQuantity => res.available
             /\ (prod.trackQuantity /\ prod.allowBackorders) => res.available
             /\ (prod.trackQuantity /\ ~prod.allowBackorders)
                   => (res.available <=> prod.quantity >= q)
             /\ ~res.available => res.availableQuantity = prod.quantity
    /\ \A r \in Procs :
          req[r].response = "OutOfStock"
             => \A i \in 1..Len(req[r].issues) :
                   /\ req[r].issues[i].available
                         = req[r].prods[req[r].issues[i].product].quantity
                   /\ req[r].issues[i].available < req[r].issues[i].requested

\* C19 witness: a checkout of 2 units is rejected against a stock of 1, and
\* the issue reports 1 available.
C19_Witness ==
    \E r \in Procs :
        /\ req[r].response = "OutOfStock"
        /\ \E i \in 1..Len(req[r].issues) :
              /\ req[r].issues[i].requested = 2
              /\ req[r].issues[i].available = 1
              /\ products[req[r].issues[i].product].quantity = 1


\* The issues expected of a cart's lines: in line order, one entry (product,
\* requested, available) per line whose product tracks quantity, disallows
\* backorders and has fewer units than the line asks for.
ExpectedIssues(items, prods) ==
    LET short == SelectSeq(items,
                           LAMBDA item :
                              /\ prods[item.product].trackQuantity
                              /\ ~prods[item.product].allowBackorders
                              /\ prods[item.product].quantity < item.quantity)
    IN [i \in 1..Len(short) |->
           [product |-> short[i].product, requested |-> short[i].quantity,
            available |-> prods[short[i].product].quantity]]

\* C20: validateStock is valid exactly when it has no issues, and its issues
\* are the expected ones, every offending line listed; a checkout rejected for
\* stock returns that list.
C20_ValidateStockIssues ==
    /\ \A u \in Users :
          LET v == ValidateStock(carts[u], products)
          IN /\ v.isValid <=> v.issues = <<>>
             /\ v.issues = ExpectedIssues(carts[u].items, products)
    /\ \A r \in Procs :
          req[r].response = "OutOfStock"
             => /\ req[r].issues = ExpectedIssues(req[r].cart.items, req[r].prods)
                /\ req[r].issues # <<>>

\* C20 witness: a checkout of a cart whose two lines both lack stock is
\* rejected with two issues.
C20_Witness ==
    \E r \in Procs :
        /\ req[r].response = "OutOfStock"
        /\ Len(req[r].cart.items) = 2
        /\ Len(req[r].issues) = 2
        /\ req[r].issues[1].product # req[r].issues[2].product


\* C21: updateQuantity on a cart holding one line of identity (product,
\* variant): with qty <= 0 the cart becomes what removeItem gives; otherwise
\* that line's quantity becomes qty and every other line is unchanged.  With
\* no line of that identity the cart is unchanged.
C21_UpdateQuantityExact ==
    \A p \in Products, q \in 0..MaxQty, v \in RequestVariants :
        LET c == carts["u1"]
            d == UpdateQuantity(c, p, q, v, products)
            hit == LinesOf(c, p, v)
        IN c.exists =>
            /\ hit = {} => d = c
            /\ (Cardinality(hit) = 1 /\ q <= 0) => d = RemoveItem(c, p, v, products)
            /\ (Cardinality(hit) = 1 /\ q > 0)
                  => /\ Len(d.items) = Len(c.items)
                     /\ \A i \in 1..Len(c.items) :
                           IF i \in hit
                           THEN d.items[i] = [c.items[i] EXCEPT !.quantity = q]
                           ELSE d.items[i] = c.items[i]


\* C22: every line of every persisted cart has quantity >= 1.
C22_LineQuantityPositive ==
    \A u \in Users : \A i \in 1..Len(carts[u].items) : carts[u].items[i].quantity >= 1

\* C22 witness: a persisted cart with one line of 1 unit on which replaying a
\* guest line of -1 units of the same identity would give quantity 0; the
\* save is rejected and mergeCart leaves the persisted cart as it is.
C22_Witness ==
    LET c == carts["u1"]
        guestCart == [items |-> <<[product |-> "p1", quantity |-> -1,
                                   variant |-> NullVariant]>>,
                      coupon |-> NoCoupon, shippingMethod |-> "express"]
    IN /\ c.items = <<[product |-> "p1", quantity |-> 1, variant |-> NullVariant]>>
       /\ AddItemDoc(c, "p1", -1, NullVariant).items[1].quantity = 0
       /\ guestCart \in GuestCarts
       /\ MergeCart(c, guestCart, products) = c
       /\ c.shippingMethod = "standard"


\* C23: the discount stored on a cart is never negative, in every cart state
\* reachable through applyCoupon and mergeCart.
C23_DiscountNonNegative ==
    \A u \in Users : carts[u].exists => carts[u].discount >= 0


\* C24: when two addItem requests on one cart have both been answered, the
\* persisted cart holds the line of each request and its totals are those
\* computed from its final line list.
C24_NoLostUpdate ==
    (\A r \in Procs : req[r].kind = "add_item" /\ req[r].pc = "done")
        => LET c == carts["u1"]
           IN /\ \A r \in Procs : \E i \in 1..Len(c.items) : c.items[i] = req[r].items[1]
              /\ c = CalculateTotals(c, products)


\* C25: when the order-confirmation email fails, the checkout still answers
\* with success and the order it created; the order stays persisted as
\* created, the inventory decrements stand and the cart stays cleared.
C25_EmailFailureTolerated ==
    \A r \in Procs :
        (req[r].kind = "checkout" /\ req[r].email = "failed")
            => LET before == req[r].pre[1]
               IN /\ req[r].pc = "done"
                  /\ req[r].response = "Created"
                  /\ req[r].order \in 1..Len(orders)
                  /\ orders[req[r].order] =
                        NewOrder(req[r].user, req[r].cart, req[r].prods, req[r].override)
                  /\ \A p \in Products :
                        products[p].quantity =
                            IF before[p].trackQuantity
                            THEN Max(0, before[p].quantity - QtyOf(req[r].cart.items, p))
                            ELSE before[p].quantity
                  /\ carts[req[r].user].items = <<>>

\* C25 witness: a checkout whose email failed has answered, and a tracked
\* product is below its quantity at the start of the request.
C25_Witness ==
    \E r \in Procs :
        /\ req[r].kind = "checkout" /\ req[r].email = "failed" /\ req[r].pc = "done"
        /\ \E p \in Products :
              /\ products[p].trackQuantity
              /\ products[p].quantity < req[r].pre[1][p].quantity


\* C26: a checkout that created its order answers with success and the
\* order, and the order stays persisted, also when an inventory decrement
\* failed after the order was created.
C26_DecrementFailureTolerated ==
    \A r \in Procs :
        (req[r].kind = "checkout" /\ req[r].pc = "done" /\ req[r].order # 0)
            => /\ req[r].order \in 1..Len(orders)
               /\ orders[req[r].order] =
                     NewOrder(req[r].user, req[r].cart, req[r].prods, req[r].override)
               /\ req[r].response = "Created"


\* C27: inventory is restored once per order: when the cancelOrder requests
\* on an order have all been answered, every product's quantity plus its
\* units on the orders not cancelled is its initial quantity again, however
\* the requests interleaved.
C27_RestoredOnce ==
    (/\ \E k \in 1..Len(orders) : orders[k].status = "cancelled"
     /\ \A r \in Procs : req[r].pc \in {"idle", "done"})
        => \A p \in Products :
              products[p].quantity + OrderedQty(orders, p) = stock0[p]


\* C28: a checkout that passed stock validation orders, of every product
\* that tracks quantity and disallows backorders, at most the product's
\* quantity at validation time in total over the lines of its cart.
C28_OrderWithinValidatedStock ==
    \A r \in Procs :
        (req[r].kind = "checkout" /\ req[r].order # 0)
            => \A p \in Products :
                  (req[r].prods[p].trackQuantity /\ ~req[r].prods[p].allowBackorders)
                      => QtyOf(req[r].cart.items, p) <= req[r].prods[p].quantity


\* C29: the admin status update to cancelled is accepted whatever the
\* order's current status, and it changes the order's status and cancelledAt
\* only: every other order, every product's inventory quantity and every
\* cart are left as they were.
C29_AdminCancelFrame ==
    /\ [](NoneInFlight
            => \A k \in 1..Len(orders) : ENABLED AdminUpdateOrderStatus(k, "cancelled"))
    /\ [][\A k \in 1..Len(orders) :
            AdminUpdateOrderStatus(k, "cancelled")
                => /\ orders' = [orders EXCEPT ![k] =
                                    [@ EXCEPT !.status = "cancelled", !.cancelledAt = TRUE]]
                   /\ products' = products
                   /\ carts' = carts]_vars

\* C29 witness: an order that was delivered is cancelled, and a tracked
\* product it holds units of is still below its initial quantity by them.
C29_Witness ==
    \E k \in 1..Len(orders) :
        /\ NoneInFlight
        /\ orders[k].status = "cancelled" /\ orders[k].cancelledAt
        /\ orders[k].deliveredAt
        /\ \E p \in Products :
              /\ products[p].trackQuantity
              /\ QtyOf(orders[k].items, p) > 0
              /\ products[p].quantity = stock0[p] - QtyOf(orders[k].items, p)


\* C30: stock conservation in sequential runs: between requests, for every
\* product that tracks quantity and disallows backorders and has at most one
\* line on each order, its quantity plus its units on the orders that are
\* not cancelled equals its initial quantity.
C30_StockConservation ==
    NoneInFlight
        => \A p \in Products :
              (/\ products[p].trackQuantity /\ ~products[p].allowBackorders
               /\ \A k \in 1..Len(orders) :
                     Cardinality({i \in 1..Len(orders[k].items) :
                                     orders[k].items[i].product = p}) <= 1)
                  => products[p].quantity + OrderedQty(orders, p) = stock0[p]

\* C30 witness: between requests, after an order of a tracked, no-backorder
\* product was cancelled and a later order took the restored unit.
C30_Witness ==
    /\ NoneInFlight
    /\ \E p \in Products, k, j \in 1..Len(orders) :
          /\ k < j
          /\ products[p].trackQuantity /\ ~products[p].allowBackorders
          /\ orders[k].status = "cancelled" /\ QtyOf(orders[k].items, p) > 0
          /\ orders[j].status = "pending" /\ QtyOf(orders[j].items, p) = stock0[p]
          /\ products[p].quantity = 0

====
